---- MODULE Spec2Model ----
(***************************************************************************)
(* Model of the retrieval-augmented pipeline of frosello/tarea-3-ai-       *)
(* enablement: the chunker and indexer of src/document_indexer.py, the     *)
(* conversation manager of src/rag_chatbot.py and the folder ingestion of  *)
(* src/Chatbot-RAG.py.                                                     *)
(*                                                                         *)
(* Texts are sequences of one-character strings.  The tokenizer            *)
(* (tiktoken cl100k_base, an external library) is modelled as a            *)
(* deterministic tokenizer: every non-space character has a fixed number   *)
(* of tokens, a single space before a word belongs to the word's first     *)
(* token (as in cl100k_base) and any other space is one token.  The        *)
(* character "L" stands for a long indivisible run of 300 tokens, so that  *)
(* documents of a few characters exceed the default budget of 512 tokens.  *)
(***************************************************************************)
EXTENDS Integers, Sequences, FiniteSets, TLC

VARIABLES
    store,                  \* the records of the Chroma collection
    collection_alive,       \* FALSE once the collection was deleted
    conversation_history,   \* RAGChatbot.conversation_history
    system_prompt,          \* RAGChatbot.system_prompt (set_system_prompt)
    answered,               \* history variable: the queries answered since the
                            \* last clear_history (not a field of the program)
    last                    \* the last call: its arguments, what it did, its result

vars == <<store, collection_alive, conversation_history, system_prompt, answered, last>>

None == "None"

(***************************************************************************)
(* Bounds of the model.                                                    *)
(***************************************************************************)
MaxTextLen == 5         \* characters of a text given to the chunker
MaxTokensBound == 4     \* largest max_tokens given to the chunker
MaxOverlapBound == 2    \* largest overlap given to the chunker

(***************************************************************************)
(* Program constants.                                                      *)
(***************************************************************************)
DefaultMaxTokens == 512
DefaultOverlap == 50
DefaultMaxHistory == 5
DefaultNResults == 3

Min(a, b) == IF a <= b THEN a ELSE b
Max(a, b) == IF a >= b THEN a ELSE b

Range(s) == {s[i] : i \in 1..Len(s)}

(***************************************************************************)
(* Strings and the tokenizer.                                              *)
(***************************************************************************)
IsSpace(c) == c \in {" ", "\n"}

\* tokens of one character under the modelled tokenizer
CharTokens(c) == IF c = "L" THEN 300 ELSE IF c = "b" THEN 2 ELSE 1

\* tokens of the text from position i on: a space directly before a word is
\* part of that word's first token, every other space is a token of its own
RECURSIVE SumTokens(_, _)
SumTokens(s, i) ==
    IF i > Len(s) THEN 0
    ELSE (IF IsSpace(s[i])
          THEN (IF i < Len(s) /\ ~IsSpace(s[i + 1]) THEN 0 ELSE 1)
          ELSE CharTokens(s[i]))
         + SumTokens(s, i + 1)

\* DocumentIndexer.count_tokens: len(self.encoding.encode(text))
count_tokens(text) == SumTokens(text, 1)

\* str.split(): the maximal runs of non-whitespace characters, in order
RECURSIVE SplitScan(_, _, _)
SplitScan(text, word, words) ==
    IF text = <<>>
    THEN IF word = <<>> THEN words ELSE Append(words, word)
    ELSE IF IsSpace(Head(text))
         THEN SplitScan(Tail(text), <<>>,
                        IF word = <<>> THEN words ELSE Append(words, word))
         ELSE SplitScan(Tail(text), Append(word, Head(text)), words)

PySplit(text) == SplitScan(text, <<>>, <<>>)

\* " ".join(words)
RECURSIVE Join(_)
Join(words) ==
    IF words = <<>> THEN <<>>
    ELSE IF Len(words) = 1 THEN words[1]
    ELSE words[1] \o <<" ">> \o Join(Tail(words))

\* str.strip(): leading and trailing whitespace removed
RECURSIVE LStrip(_)
LStrip(s) == IF s # <<>> /\ IsSpace(Head(s)) THEN LStrip(Tail(s)) ELSE s

RECURSIVE RStrip(_)
RStrip(s) ==
    IF s # <<>> /\ IsSpace(s[Len(s)]) THEN RStrip(SubSeq(s, 1, Len(s) - 1)) ELSE s

Strip(s) == RStrip(LStrip(s))

\* seq[:n] for n >= 0: the first n items
PySliceFirst(seq, n) == SubSeq(seq, 1, Min(n, Len(seq)))

\* seq[-n:] for n >= 0: the last n items, and the whole list when n = 0
PySliceLast(seq, n) ==
    IF n = 0 THEN seq ELSE SubSeq(seq, Max(1, Len(seq) - n + 1), Len(seq))

(***************************************************************************)
(* The chunker: DocumentIndexer.split_text_into_chunks.                    *)
(***************************************************************************)
\* the words carried into the next chunk (line 119)
OverlapWords(current_chunk, overlap) ==
    IF Len(current_chunk) > overlap
    THEN PySliceLast(current_chunk, overlap)
    ELSE current_chunk

\* (mutant) the word that overflowed is left out of the new running chunk
SplitStepDropWord(st, word, max_tokens, overlap) ==
    LET word_tokens == count_tokens(word \o <<" ">>) IN
    IF st.current_tokens + word_tokens > max_tokens /\ st.current_chunk # <<>>
    THEN LET current_chunk == OverlapWords(st.current_chunk, overlap) IN
         [chunks |-> Append(st.chunks, Join(st.current_chunk)),
          current_chunk |-> current_chunk,
          current_tokens |-> count_tokens(Join(current_chunk))]
    ELSE [chunks |-> st.chunks,
          current_chunk |-> Append(st.current_chunk, word),
          current_tokens |-> st.current_tokens + word_tokens]

\* one iteration of the loop over the words (lines 110-124)
SplitStep(st, word, max_tokens, overlap) ==
    LET word_tokens == count_tokens(word \o <<" ">>) IN
    IF st.current_tokens + word_tokens > max_tokens /\ st.current_chunk # <<>>
    THEN LET current_chunk == OverlapWords(st.current_chunk, overlap) \o <<word>> IN
         [chunks |-> Append(st.chunks, Join(st.current_chunk)),
          current_chunk |-> current_chunk,
          current_tokens |-> count_tokens(Join(current_chunk))]
    ELSE [chunks |-> st.chunks,
          current_chunk |-> Append(st.current_chunk, word),
          current_tokens |-> st.current_tokens + word_tokens]

\* the loop state after the first k words
RECURSIVE SplitLoop(_, _, _, _)
SplitLoop(words, k, max_tokens, overlap) ==
    IF k = 0
    THEN [chunks |-> <<>>, current_chunk |-> <<>>, current_tokens |-> 0]
    ELSE SplitStep(SplitLoop(words, k - 1, max_tokens, overlap),
                   words[k], max_tokens, overlap)

\* (mutant) the chunk left open after the last word is not emitted
split_text_into_chunks_no_tail(text, max_tokens, overlap) ==
    LET words == PySplit(text)
    IN SplitLoop(words, Len(words), max_tokens, overlap).chunks

split_text_into_chunks(text, max_tokens, overlap) ==
    LET words == PySplit(text)
        st == SplitLoop(words, Len(words), max_tokens, overlap)
    IN IF st.current_chunk # <<>>
       THEN Append(st.chunks, Join(st.current_chunk))
       ELSE st.chunks

(***************************************************************************)
(* Inputs of the chunker.                                                  *)
(***************************************************************************)
Chars == {"a", "b", " "}

RECURSIVE SeqsUpTo(_, _)
SeqsUpTo(S, n) ==
    IF n = 0 THEN {<<>>}
    ELSE LET shorter == SeqsUpTo(S, n - 1)
         IN shorter \cup {Append(s, c) : s \in {t \in shorter : Len(t) = n - 1}, c \in S}

Texts == SeqsUpTo(Chars, MaxTextLen)

InitSystem ==
    /\ store = {}
    /\ collection_alive = TRUE
    /\ conversation_history = <<>>
    /\ system_prompt = None
    /\ answered = <<>>

\* the chunker is given a text, a budget and an overlap
SplitInit ==
    /\ InitSystem
    /\ \E text \in Texts, max_tokens \in 1..MaxTokensBound,
          overlap \in 0..MaxOverlapBound :
          last = [op |-> "call_split", text |-> text, max_tokens |-> max_tokens,
                  overlap |-> overlap]

\* the call of split_text_into_chunks, with its result
Split ==
    /\ last.op = "call_split"
    /\ last' = [op |-> "split", text |-> last.text, max_tokens |-> last.max_tokens,
                overlap |-> last.overlap,
                chunks |-> split_text_into_chunks(last.text, last.max_tokens,
                                                  last.overlap)]
    /\ UNCHANGED <<store, collection_alive, conversation_history, system_prompt, answered>>

SplitNext == Split

SpecSplit == SplitInit /\ [][SplitNext]_vars

(***************************************************************************)
(* The embedding provider and the vector store (external services).        *)
(***************************************************************************)
\* the vector the embedding provider returns for a text
Embedding(text) == <<"embedding", text>>

\* the records of the collection that carry one of the ids
HasId(st, id) == \E r \in st : r.id = id

\* (mutant) collection.add that stores a second record under an id it holds
CollectionAddDuplicates(st, documents, embeddings, metadatas, ids) ==
    st \cup {[id |-> ids[j], document |-> documents[j],
              embedding |-> embeddings[j], metadata |-> metadatas[j]] :
             j \in 1..Len(ids)}

\* collection.add(documents, embeddings, metadatas, ids): one record per position
\* of the four lists; Chroma keeps the record it already holds under an id
\* and drops the new one
CollectionAdd(st, documents, embeddings, metadatas, ids) ==
    st \cup {[id |-> ids[j], document |-> documents[j],
              embedding |-> embeddings[j], metadata |-> metadatas[j]] :
             j \in {k \in 1..Len(ids) : ~HasId(st, ids[k])}}

\* dict.get(key): the value, or None when the key is absent
DictGet(d, key) == IF key \in DOMAIN d THEN d[key] ELSE None

EmptyDict == [k \in {} |-> None]

(***************************************************************************)
(* The indexer: DocumentIndexer.index_document.                            *)
(***************************************************************************)
\* chunk_id = f"{filename}_{i}"
ChunkId(filename, i) == filename \o "_" \o ToString(i)

\* base_metadata = metadata or {}; base_metadata["filename"] = filename
\* (the optional argument is <<>> when absent and <<dict>> when given)
BaseMetadata(metadata, filename) ==
    [filename |-> filename] @@ (IF metadata = <<>> THEN EmptyDict ELSE metadata[1])

\* (mutant) chunk_index counted from one
ChunkMetadataOneBased(base_metadata, i, total) ==
    [chunk_index |-> i + 1, total_chunks |-> total] @@ base_metadata

\* chunk_metadata: a copy of base_metadata with chunk_index and total_chunks
ChunkMetadata(base_metadata, i, total) ==
    [chunk_index |-> i, total_chunks |-> total] @@ base_metadata

\* (mutant) the loop stops at the first embedding failure (break for continue)
RECURSIVE EmbedLoopBreak(_, _, _, _, _)
EmbedLoopBreak(chunks, k, filename, base_metadata, embed_fail) ==
    IF k = 0
    THEN [documents |-> <<>>, embeddings |-> <<>>, metadatas |-> <<>>,
          ids |-> <<>>, embed_calls |-> <<>>]
    ELSE LET acc == EmbedLoopBreak(chunks, k - 1, filename, base_metadata, embed_fail)
             i == k - 1
             chunk == chunks[k]
             calls == Append(acc.embed_calls, chunk)
         IN IF \E j \in embed_fail : j < i
            THEN acc
            ELSE IF i \in embed_fail
            THEN [acc EXCEPT !.embed_calls = calls]
            ELSE [documents |-> Append(acc.documents, chunk),
                  embeddings |-> Append(acc.embeddings, <<"embedding", chunk>>),
                  metadatas |-> Append(acc.metadatas,
                                       [chunk_index |-> i, total_chunks |-> Len(chunks)]
                                           @@ base_metadata),
                  ids |-> Append(acc.ids, filename \o "_" \o ToString(i)),
                  embed_calls |-> calls]

\* (mutant) the ids are numbered by the position in the lists, so that after
\* a failed embedding an id names the chunk before the one it is stored with
RECURSIVE EmbedLoopRenumber(_, _, _, _, _)
EmbedLoopRenumber(chunks, k, filename, base_metadata, embed_fail) ==
    IF k = 0
    THEN [documents |-> <<>>, embeddings |-> <<>>, metadatas |-> <<>>,
          ids |-> <<>>, embed_calls |-> <<>>]
    ELSE LET acc == EmbedLoopRenumber(chunks, k - 1, filename, base_metadata,
                                      embed_fail)
             i == k - 1
             chunk == chunks[k]
             calls == Append(acc.embed_calls, chunk)
         IN IF i \in embed_fail
            THEN [acc EXCEPT !.embed_calls = calls]
            ELSE [documents |-> Append(acc.documents, chunk),
                  embeddings |-> Append(acc.embeddings, <<"embedding", chunk>>),
                  metadatas |-> Append(acc.metadatas,
                                       [chunk_index |-> i, total_chunks |-> Len(chunks)]
                                           @@ base_metadata),
                  ids |-> Append(acc.ids,
                                 filename \o "_" \o ToString(Len(acc.ids))),
                  embed_calls |-> calls]

\* the four lists and the embedding calls after the first k chunks of the loop
\* (lines 161-177); embed_fail holds the indexes whose embedding call raises
RECURSIVE EmbedLoop(_, _, _, _, _)
EmbedLoop(chunks, k, filename, base_metadata, embed_fail) ==
    IF k = 0
    THEN [documents |-> <<>>, embeddings |-> <<>>, metadatas |-> <<>>,
          ids |-> <<>>, embed_calls |-> <<>>]
    ELSE LET acc == EmbedLoop(chunks, k - 1, filename, base_metadata, embed_fail)
             i == k - 1
             chunk == chunks[k]
             calls == Append(acc.embed_calls, chunk)
         IN IF i \in embed_fail
            THEN [acc EXCEPT !.embed_calls = calls]
            ELSE [documents |-> Append(acc.documents, chunk),
                  embeddings |-> Append(acc.embeddings, Embedding(chunk)),
                  metadatas |-> Append(acc.metadatas,
                                       ChunkMetadata(base_metadata, i, Len(chunks))),
                  ids |-> Append(acc.ids, ChunkId(filename, i)),
                  embed_calls |-> calls]

\* (mutant) collection.add is called with empty lists too
AddCalledAlways(documents) == TRUE

\* (mutant) the number of embedded chunks is returned when the write failed too
IndexReturnCount(documents, added) == Len(documents)

\* whether index_document reaches collection.add (line 180)
AddCalled(documents) == documents # <<>>

\* the value index_document returns after the loop (lines 189, 192 and 195)
IndexReturn(documents, added) == IF added THEN Len(documents) ELSE 0

\* index_document on the collection st: what it returns, the calls it made and
\* the collection afterwards; add_ok says whether collection.add returns
index_document(st, content, filename, metadata, embed_fail, add_ok) ==
    IF Strip(content) = <<>>
    THEN [ret |-> 0, chunks |-> <<>>, documents |-> <<>>, embeddings |-> <<>>,
          metadatas |-> <<>>, ids |-> <<>>, embed_calls |-> <<>>,
          add_called |-> FALSE, add_ok |-> FALSE, store |-> st]
    ELSE LET chunks == split_text_into_chunks(content, DefaultMaxTokens, DefaultOverlap)
             acc == EmbedLoop(chunks, Len(chunks), filename,
                              BaseMetadata(metadata, filename), embed_fail)
             called == AddCalled(acc.documents)
             ok == called /\ add_ok
         IN [ret |-> IndexReturn(acc.documents, ok),
             chunks |-> chunks,
             documents |-> acc.documents, embeddings |-> acc.embeddings,
             metadatas |-> acc.metadatas, ids |-> acc.ids,
             embed_calls |-> acc.embed_calls,
             add_called |-> called, add_ok |-> ok,
             store |-> IF ok
                       THEN CollectionAdd(st, acc.documents, acc.embeddings,
                                          acc.metadatas, acc.ids)
                       ELSE st]

\* the records of a file in the collection
RecordsOf(st, filename) == {r \in st : DictGet(r.metadata, "filename") = filename}

\* a call of index_document; the embedding calls of embed_fail raise, and
\* collection.add raises when the store fails or the collection was deleted
IndexDocument(content, filename, metadata, embed_fail, store_ok) ==
    \E r \in {index_document(store, content, filename, metadata, embed_fail,
                               store_ok /\ collection_alive)} :
       /\ embed_fail \subseteq 0..(Len(r.chunks) - 1)
       /\ store' = r.store
       /\ last' = [op |-> "index", content |-> content, filename |-> filename,
                   metadata |-> metadata, chunks |-> r.chunks,
                   embed_fail |-> embed_fail,
                   store_ok |-> store_ok /\ collection_alive,
                   embed_calls |-> r.embed_calls,
                   add_called |-> r.add_called, add_ok |-> r.add_ok,
                   documents |-> r.documents, embeddings |-> r.embeddings,
                   metadatas |-> r.metadatas, ids |-> r.ids, ret |-> r.ret,
                   had_records |-> RecordsOf(store, filename) # {},
                   retry |-> /\ last.op = "index"
                             /\ last.content = content
                             /\ last.filename = filename
                             /\ last.add_called /\ ~last.add_ok,
                   again |-> /\ last.op = "index"
                             /\ last.content = content
                             /\ last.filename = filename
                             /\ last.embed_fail = embed_fail
                             /\ last.add_ok]
       /\ UNCHANGED <<collection_alive, conversation_history, system_prompt, answered>>

(***************************************************************************)
(* Inputs of the indexer.                                                  *)
(***************************************************************************)
MaxDocWords == 2        \* words of the longest document given to the indexer

\* a document of n words of 300 tokens each: "L L ... L"
RECURSIVE LongDoc(_)
LongDoc(n) == IF n = 0 THEN <<>> ELSE IF n = 1 THEN <<"L">> ELSE LongDoc(n - 1) \o <<" ", "L">>

IndexContents == {LongDoc(n) : n \in 0..MaxDocWords} \cup {<<" ", " ">>, <<"a">>}

\* the metadata the caller passes: the loader's for a.txt, none for b.txt
CallerMetadata(filename) ==
    IF filename = "a.txt" THEN <<[file_type |-> "text"]>> ELSE <<>>

\* the documents given to the indexer: every content as a.txt, and one
\* document of two chunks as b.txt
IndexDocuments ==
    {[content |-> c, filename |-> "a.txt"] : c \in IndexContents}
        \cup {[content |-> LongDoc(2), filename |-> "b.txt"]}

IndexInit ==
    /\ InitSystem
    /\ last = [op |-> "init"]

IndexNext ==
    \E d \in IndexDocuments, embed_fail \in SUBSET (0..(MaxDocWords - 1)),
       store_ok \in BOOLEAN :
        IndexDocument(d.content, d.filename, CallerMetadata(d.filename),
                      embed_fail, store_ok)

SpecIndex == IndexInit /\ [][IndexNext]_vars

(***************************************************************************)
(* Folder ingestion: indexar_carpeta.                                      *)
(***************************************************************************)
\* the metadata load_document returns with the content of a text file
LoadedMetadata == <<[file_type |-> "text"]>>

CarpetaStart(st) ==
    [store |-> st, exitosos |-> 0, fallidos |-> 0, load_calls |-> <<>>,
     index_calls |-> <<>>, results |-> <<>>]

\* (mutant) the first loader error stops the loop (no try inside the loop)
RECURSIVE CarpetaLoopAbort(_, _, _, _)
CarpetaLoopAbort(files, k, st, alive) ==
    IF k = 0 THEN CarpetaStart(st)
    ELSE LET acc == CarpetaLoopAbort(files, k - 1, st, alive)
             archivo == files[k]
             loaded == Append(acc.load_calls, archivo.name)
         IN IF \E j \in 1..(k - 1) : ~files[j].load_ok
            THEN acc
            ELSE IF ~archivo.load_ok
            THEN [acc EXCEPT !.load_calls = loaded]
            ELSE LET r == index_document(acc.store, archivo.content, archivo.name,
                                         LoadedMetadata, archivo.embed_fail,
                                         archivo.store_ok /\ alive)
                 IN [store |-> r.store,
                     exitosos |-> acc.exitosos + (IF r.ret > 0 THEN 1 ELSE 0),
                     fallidos |-> acc.fallidos + (IF r.ret > 0 THEN 0 ELSE 1),
                     load_calls |-> loaded,
                     index_calls |-> Append(acc.index_calls, archivo.name),
                     results |-> Append(acc.results, <<r.ret>>)]

\* the counters, the calls and the collection after the first k files of the
\* loop (lines 225-243); a file tells whether load_document returns, the
\* content it returns and the outcomes of the remote calls of its indexing;
\* results holds <<chunks>> for an indexed file and <<>> for a loader error
RECURSIVE CarpetaLoop(_, _, _, _)
CarpetaLoop(files, k, st, alive) ==
    IF k = 0 THEN CarpetaStart(st)
    ELSE LET acc == CarpetaLoop(files, k - 1, st, alive)
             archivo == files[k]
             loaded == Append(acc.load_calls, archivo.name)
         IN IF ~archivo.load_ok
            THEN [acc EXCEPT !.load_calls = loaded,
                             !.fallidos = acc.fallidos + 1,
                             !.results = Append(acc.results, <<>>)]
            ELSE LET r == index_document(acc.store, archivo.content, archivo.name,
                                         LoadedMetadata, archivo.embed_fail,
                                         archivo.store_ok /\ alive)
                 IN [store |-> r.store,
                     exitosos |-> acc.exitosos + (IF r.ret > 0 THEN 1 ELSE 0),
                     fallidos |-> acc.fallidos + (IF r.ret > 0 THEN 0 ELSE 1),
                     load_calls |-> loaded,
                     index_calls |-> Append(acc.index_calls, archivo.name),
                     results |-> Append(acc.results, <<r.ret>>)]

\* indexar_carpeta: nothing is processed when no supported file is found or
\* the user does not confirm (lines 211-222)
indexar_carpeta(files, confirmar, st, alive) ==
    IF files = <<>> \/ confirmar # "s"
    THEN [ran |-> FALSE] @@ CarpetaStart(st)
    ELSE [ran |-> TRUE] @@ CarpetaLoop(files, Len(files), st, alive)

\* a run of indexar_carpeta over the files found in the folder
IndexarCarpeta(files, confirmar) ==
    \E r \in {indexar_carpeta(files, confirmar, store, collection_alive)} :
       /\ store' = r.store
       /\ last' = [op |-> "carpeta", files |-> files, confirmar |-> confirmar,
                   ran |-> r.ran, exitosos |-> r.exitosos, fallidos |-> r.fallidos,
                   load_calls |-> r.load_calls, index_calls |-> r.index_calls,
                   results |-> r.results]
       /\ UNCHANGED <<collection_alive, conversation_history, system_prompt, answered>>

(***************************************************************************)
(* Inputs of the folder ingestion.                                         *)
(***************************************************************************)
MaxFiles == 2           \* files found in the folder

\* the name of the i-th file found
FolderName(i) == "f" \o ToString(i) \o ".txt"

\* what can happen to a file: the loader raises; it loads as blank; it loads
\* and every remote call works; an embedding call fails; the store write fails
FileOutcomes ==
    {[load_ok |-> FALSE, content |-> <<>>, embed_fail |-> {}, store_ok |-> TRUE],
     [load_ok |-> TRUE, content |-> <<" ", " ">>, embed_fail |-> {}, store_ok |-> TRUE],
     [load_ok |-> TRUE, content |-> LongDoc(1), embed_fail |-> {}, store_ok |-> TRUE],
     [load_ok |-> TRUE, content |-> LongDoc(1), embed_fail |-> {0}, store_ok |-> TRUE],
     [load_ok |-> TRUE, content |-> LongDoc(1), embed_fail |-> {}, store_ok |-> FALSE]}

\* the folders of n files: each file with one of the outcomes
Folders(n) ==
    {[i \in 1..n |-> [name |-> FolderName(i)] @@ o[i]] : o \in [1..n -> FileOutcomes]}

CarpetaNext ==
    \E n \in 0..MaxFiles, confirmar \in {"s", "n"} :
       \E files \in Folders(n) : IndexarCarpeta(files, confirmar)

SpecCarpeta == IndexInit /\ [][CarpetaNext]_vars

(***************************************************************************)
(* Retrieval: DocumentIndexer.search_documents.                            *)
(***************************************************************************)
\* the orders in which the collection can return n of its records (the
\* similarity ranking is the store's; every order is possible)
RECURSIVE Rankings(_, _)
Rankings(st, n) ==
    IF n = 0 \/ st = {} THEN {<<>>}
    ELSE UNION {{<<r>> \o rest : rest \in Rankings(st \ {r}, n - 1)} : r \in st}

\* (mutant) the results in the reverse of the order the store returned
search_documents_reversed(retrieval) ==
    IF retrieval.error # None THEN <<>>
    ELSE [i \in 1..Len(retrieval.ranking) |->
            [content |-> retrieval.ranking[Len(retrieval.ranking) + 1 - i].document,
             metadata |-> retrieval.ranking[Len(retrieval.ranking) + 1 - i].metadata,
             distance |-> i]]

\* search_documents: the ranked records as search results, and the empty list
\* when the query embedding or the store lookup raises (lines 208-228);
\* retrieval tells which of the two calls raised, if any, and the ranking
search_documents(retrieval) ==
    IF retrieval.error # None THEN <<>>
    ELSE [i \in 1..Len(retrieval.ranking) |->
            [content |-> retrieval.ranking[i].document,
             metadata |-> retrieval.ranking[i].metadata,
             distance |-> i]]

\* what the two remote calls of a search can do on the collection st: the
\* embedding provider raises, the store raises (always, once the collection
\* was deleted), or the store returns n_results records, fewer if it has fewer
Retrievals(st, alive, n_results) ==
    {[error |-> e, ranking |-> <<>>] : e \in {"embedding", "store"}}
    \cup (IF alive
          THEN {[error |-> None, ranking |-> r] : r \in Rankings(st, n_results)}
          ELSE {})

\* a call of search_documents with the outcome of its two remote calls
SearchDocuments(query, n_results, retrieval) ==
    /\ last' = [op |-> "search", query |-> query, n_results |-> n_results,
                error |-> retrieval.error, ranking |-> retrieval.ranking,
                records |-> Cardinality(store),
                ret |-> search_documents(retrieval)]
    /\ UNCHANGED <<store, collection_alive, conversation_history, system_prompt,
                   answered>>

(***************************************************************************)
(* The informational operations of the indexer and delete_collection.      *)
(***************************************************************************)
CollectionName == "documents"

UnknownCollection == "unknown"

\* get_collection_info: the record count and the name, or the placeholder
\* when collection.count() raises (lines 237-245)
get_collection_info(st, count_ok) ==
    IF count_ok
    THEN [total_documents |-> Cardinality(st), collection_name |-> CollectionName]
    ELSE [total_documents |-> 0, collection_name |-> UnknownCollection]

\* the lists that hold every item of a set once, in any order: list(set)
RECURSIVE ListsOf(_)
ListsOf(S) ==
    IF S = {} THEN {<<>>}
    ELSE UNION {{<<x>> \o rest : rest \in ListsOf(S \ {x})} : x \in S}

\* the filenames in the metadata of the records (lines 271-273)
StoredFilenames(st) ==
    {r.metadata["filename"] : r \in {q \in st : "filename" \in DOMAIN q.metadata}}

\* (mutant) one entry per stored record: the filenames are not deduplicated
list_documents_per_record(st, get_ok) ==
    IF get_ok
    THEN {[i \in 1..Len(l) |-> l[i].metadata["filename"]] :
            l \in ListsOf({q \in st : "filename" \in DOMAIN q.metadata})}
    ELSE {<<>>}

\* list_documents: the lists it can return, the order of list(set) being
\* unspecified; the empty list when collection.get() raises (lines 269-282)
list_documents(st, get_ok) ==
    IF get_ok THEN ListsOf(StoredFilenames(st)) ELSE {<<>>}

\* (mutant) the success flag is returned when the store raised too
delete_collection_always_true(st, alive, delete_ok) ==
    IF alive /\ delete_ok
    THEN [ret |-> TRUE, store |-> {}, collection_alive |-> FALSE]
    ELSE [ret |-> TRUE, store |-> st, collection_alive |-> alive]

\* (mutant) the handle is bound again to a fresh collection of the same name
delete_collection_rebind(st, alive, delete_ok) ==
    IF alive /\ delete_ok
    THEN [ret |-> TRUE, store |-> {}, collection_alive |-> TRUE]
    ELSE [ret |-> FALSE, store |-> st, collection_alive |-> alive]

\* delete_collection: the store drops the collection with all its records, or
\* raises (always, when the collection was deleted before) (lines 254-260)
delete_collection(st, alive, delete_ok) ==
    IF alive /\ delete_ok
    THEN [ret |-> TRUE, store |-> {}, collection_alive |-> FALSE]
    ELSE [ret |-> FALSE, store |-> st, collection_alive |-> alive]

\* a call of get_collection_info; collection.count() raises when the store
\* fails or the collection was deleted
GetCollectionInfo(store_ok) ==
    /\ last' = [op |-> "info", store_ok |-> store_ok /\ collection_alive,
                records |-> Cardinality(store),
                ret |-> get_collection_info(store, store_ok /\ collection_alive)]
    /\ UNCHANGED <<store, collection_alive, conversation_history, system_prompt,
                   answered>>

\* a call of list_documents
ListDocuments(store_ok) ==
    \E ret \in list_documents(store, store_ok /\ collection_alive) :
       /\ last' = [op |-> "list", store_ok |-> store_ok /\ collection_alive,
                   records |-> Cardinality(store), ret |-> ret]
       /\ UNCHANGED <<store, collection_alive, conversation_history, system_prompt,
                      answered>>

\* a call of delete_collection
DeleteCollection(store_ok) ==
    \E r \in {delete_collection(store, collection_alive, store_ok)} :
       /\ store' = r.store
       /\ collection_alive' = r.collection_alive
       /\ last' = [op |-> "delete", store_ok |-> store_ok,
                   was_alive |-> collection_alive,
                   records |-> Cardinality(store), ret |-> r.ret]
       /\ UNCHANGED <<conversation_history, system_prompt, answered>>

\* a new DocumentIndexer is constructed over the same persisted store: the
\* handle is bound to the collection of that name, which is loaded with its
\* records when it exists and created empty when it does not
NewIndexer ==
    /\ collection_alive' = TRUE
    /\ store' = IF collection_alive THEN store ELSE {}
    /\ last' = [op |-> "construct", created |-> ~collection_alive,
                records |-> Cardinality(store)]
    /\ UNCHANGED <<conversation_history, system_prompt, answered>>

(***************************************************************************)
(* The conversation manager: RAGChatbot.generate_response.                 *)
(***************************************************************************)
SystemInstruction == "Eres un asistente util que responde preguntas basandose en los documentos proporcionados."

NoDocumentsMarker == "No se encontraron documentos relevantes."

ErrorPrefix == "Lo siento, hubo un error al generar la respuesta: "

\* _get_current_timestamp: the formatted time of the call (one opaque value)
CurrentTimestamp == "timestamp"

\* the three context lines of one search result (lines 68-70)
ContextPartsOf(doc) ==
    <<<<"Documento: ", IF "filename" \in DOMAIN doc.metadata
                       THEN doc.metadata["filename"] ELSE "Desconocido">>,
      <<"Contenido: ", doc.content>>,
      "---">>

RECURSIVE ContextParts(_)
ContextParts(relevant_docs) ==
    IF relevant_docs = <<>> THEN <<>>
    ELSE ContextPartsOf(Head(relevant_docs)) \o ContextParts(Tail(relevant_docs))

\* (mutant) the context block is left empty when there are no results
ContextNoMarker(relevant_docs) == ContextParts(relevant_docs)

\* the context block (line 72): the lines of the results, or the marker
Context(relevant_docs) ==
    IF ContextParts(relevant_docs) # <<>>
    THEN ContextParts(relevant_docs)
    ELSE NoDocumentsMarker

\* recent_history (line 75)
RecentHistory(history, max_history) ==
    IF history # <<>> THEN PySliceLast(history, max_history) ELSE <<>>

\* the user and assistant messages of the turns (lines 94-96)
RECURSIVE HistoryMessages(_)
HistoryMessages(turns) ==
    IF turns = <<>> THEN <<>>
    ELSE <<[role |-> "user", content |-> Head(turns).query],
           [role |-> "assistant", content |-> Head(turns).response]>>
         \o HistoryMessages(Tail(turns))

\* the final user message (lines 99-102)
UserMessage(context, query) ==
    <<"Contexto de documentos:", context, "Pregunta: ", query>>

\* (mutant) the system message is the prompt set by set_system_prompt
MessagesCustomPrompt(history, query, max_history, relevant_docs) ==
    <<[role |-> "system",
       content |-> IF system_prompt = None THEN SystemInstruction ELSE system_prompt]>>
    \o HistoryMessages(RecentHistory(history, max_history))
    \o <<[role |-> "user", content |-> UserMessage(Context(relevant_docs), query)]>>

\* the prompt sent to the generative provider (lines 78-104)
Messages(history, query, max_history, relevant_docs) ==
    <<[role |-> "system", content |-> SystemInstruction]>>
    \o HistoryMessages(RecentHistory(history, max_history))
    \o <<[role |-> "user", content |-> UserMessage(Context(relevant_docs), query)]>>

\* the items of a list without None and without repetitions, in order
RECURSIVE Deduplicated(_)
Deduplicated(list) ==
    IF list = <<>> THEN <<>>
    ELSE LET front == SubSeq(list, 1, Len(list) - 1)
             x == list[Len(list)]
         IN IF x = None \/ x \in Range(front)
            THEN Deduplicated(front)
            ELSE Append(Deduplicated(front), x)

\* (mutant) the recorded filenames without None and without repetitions
TurnDocsDeduplicated(relevant_docs) ==
    Deduplicated([i \in 1..Len(relevant_docs) |->
                    IF "filename" \in DOMAIN relevant_docs[i].metadata
                    THEN relevant_docs[i].metadata["filename"] ELSE None])

\* the filenames recorded in the turn (line 120)
TurnDocs(relevant_docs) ==
    [i \in 1..Len(relevant_docs) |-> DictGet(relevant_docs[i].metadata, "filename")]

\* the turn recorded on success (lines 117-122)
NewTurn(query, answer, relevant_docs) ==
    [query |-> query, response |-> answer,
     relevant_docs |-> TurnDocs(relevant_docs),
     timestamp |-> CurrentTimestamp]

\* (mutant) the turn is appended twice
RecordTurnTwice(history, turn) == Append(Append(history, turn), turn)

\* self.conversation_history.append(turn)
RecordTurn(history, turn) == Append(history, turn)

\* (mutant) the error string without the reason of the failure
ErrorMessageNoReason(reason) == <<ErrorPrefix>>

\* the string returned when the call raised (line 128)
ErrorMessage(reason) == <<ErrorPrefix, reason>>

\* (mutant) the turn is recorded before the provider is called, so that it
\* stays in the history when the provider raises
generate_response_record_first(history, query, max_history, relevant_docs, outcome) ==
    LET messages == Messages(history, query, max_history, relevant_docs)
    IN [messages |-> messages, provider_calls |-> <<messages>>,
        ret |-> IF outcome.ok THEN outcome.text ELSE ErrorMessage(outcome.text),
        history |-> RecordTurn(history,
                               NewTurn(query, IF outcome.ok THEN outcome.text ELSE None,
                                       relevant_docs))]

\* generate_response: the prompt it builds, the calls of the generative
\* provider (line 107), what it returns and the history afterwards; outcome is
\* the provider's answer or its failure
generate_response(history, query, max_history, relevant_docs, outcome) ==
    LET messages == Messages(history, query, max_history, relevant_docs)
    IN IF outcome.ok
       THEN [messages |-> messages, provider_calls |-> <<messages>>,
             ret |-> outcome.text,
             history |-> RecordTurn(history, NewTurn(query, outcome.text, relevant_docs))]
       ELSE [messages |-> messages, provider_calls |-> <<messages>>,
             ret |-> ErrorMessage(outcome.text),
             history |-> history]

\* a call of generate_response with the outcomes of its remote calls
GenerateResponse(query, max_history, n_results, retrieval, outcome) ==
    \E relevant_docs \in {search_documents(retrieval)} :
    \E r \in {generate_response(conversation_history, query, max_history,
                                relevant_docs, outcome)} :
       /\ conversation_history' = r.history
       /\ answered' = IF outcome.ok THEN Append(answered, query) ELSE answered
       /\ last' = [op |-> "generate", query |-> query, max_history |-> max_history,
                   n_results |-> n_results, retrieval |-> retrieval.error,
                   relevant_docs |-> relevant_docs,
                   messages |-> r.messages, provider_calls |-> r.provider_calls,
                   provider_ok |-> outcome.ok,
                   outcome |-> outcome.text, ret |-> r.ret]
       /\ UNCHANGED <<store, collection_alive, system_prompt>>

(***************************************************************************)
(* The other operations of the conversation manager.                       *)
(***************************************************************************)
\* (mutant) the turns recorded so far are kept
clear_history_keep(history) == history

\* clear_history: self.conversation_history = []
clear_history(history) == <<>>

\* the truth value of a recorded filename: None and "" are false (line 148)
Truthy(doc) == doc # None /\ doc # ""

\* the filenames of the turns that pass the filter of lines 146-148
ReferencedDocs(history) ==
    {doc \in UNION {Range(history[i].relevant_docs) : i \in 1..Len(history)} :
        Truthy(doc)}

\* get_conversation_summary: the summaries it can return, the order of
\* list(set(...)) being unspecified (lines 142-150)
get_conversation_summary(history) ==
    {[total_exchanges |-> Len(history),
      last_query |-> IF history # <<>> THEN history[Len(history)].query ELSE None,
      documents_referenced |-> docs] : docs \in ListsOf(ReferencedDocs(history))}

\* (mutant) the turns before the returned ones are dropped from the history
get_conversation_history_trim(history, limit) ==
    IF limit # <<>> /\ limit[1] # 0
    THEN [ret |-> PySliceLast(history, limit[1]),
          history |-> PySliceLast(history, limit[1])]
    ELSE [ret |-> history, history |-> history]

\* get_conversation_history: the last limit turns, or a copy of the whole
\* list when limit is absent or 0 (lines 162-164); the optional argument is
\* <<>> when absent and <<limit>> when given
get_conversation_history(history, limit) ==
    IF limit # <<>> /\ limit[1] # 0
    THEN [ret |-> PySliceLast(history, limit[1]), history |-> history]
    ELSE [ret |-> history, history |-> history]

NothingToExport == "No hay conversacion para exportar."

\* the lines of one turn in the export (lines 180-190)
ExportLinesOf(i, exchange) ==
    <<<<"--- Intercambio ", i, " ---">>,
      <<"Timestamp: ", exchange.timestamp>>,
      <<"Usuario: ", exchange.query>>,
      <<"Chatbot: ", exchange.response>>>>
    \o (IF \E k \in 1..Len(exchange.relevant_docs) : Truthy(exchange.relevant_docs[k])
        THEN <<<<"Documentos usados: ",
                 SelectSeq(exchange.relevant_docs, Truthy)>>>>
        ELSE <<>>)
    \o <<"">>

RECURSIVE ExportLines(_, _)
ExportLines(history, k) ==
    IF k = 0 THEN <<"=== HISTORIAL DE CONVERSACION ===">>
    ELSE ExportLines(history, k - 1) \o ExportLinesOf(k, history[k])

\* export_conversation: the lines of the text it returns (lines 173-192)
export_conversation(history) ==
    IF history = <<>> THEN NothingToExport
    ELSE ExportLines(history, Len(history))

IndexFirstAdvice == "Primero necesitas indexar algunos documentos."

NoContentAdvice == "No hay suficiente contenido para generar sugerencias."

SuggestionsError == "Error generando sugerencias de preguntas."

\* a fixed message as a text: one indivisible piece
Text(message) == <<message>>

SampleResults == 2
DefaultSuggestions == 3

\* str.split('\n'): the pieces between the newlines, the empty ones included
RECURSIVE SplitLinesScan(_, _, _)
SplitLinesScan(text, line, lines) ==
    IF text = <<>> THEN Append(lines, line)
    ELSE IF Head(text) = "\n"
         THEN SplitLinesScan(Tail(text), <<>>, Append(lines, line))
         ELSE SplitLinesScan(Tail(text), Append(line, Head(text)), lines)

SplitLines(text) == SplitLinesScan(text, <<>>, <<>>)

NonBlank(q) == Strip(q) # <<>>

\* (mutant) every suggestion of the provider is returned
SuggestionsUntruncated(content, n_suggestions) ==
    LET suggestions == SelectSeq(SplitLines(Strip(content)), NonBlank)
    IN [i \in 1..Len(suggestions) |-> Strip(suggestions[i])]

\* the suggestions taken from the provider's text (lines 235-236)
Suggestions(content, n_suggestions) ==
    LET suggestions == SelectSeq(SplitLines(Strip(content)), NonBlank)
    IN PySliceFirst([i \in 1..Len(suggestions) |-> Strip(suggestions[i])],
                    n_suggestions)

\* suggest_questions: what it returns and the remote calls it makes; count_ok
\* says whether collection.count() returns, retrieval is the outcome of the
\* sample search and outcome the provider's answer or its failure
suggest_questions(st, n_suggestions, count_ok, retrieval, outcome) ==
    LET db_info == get_collection_info(st, count_ok)
        sample_docs == search_documents(retrieval)
    IN IF db_info.total_documents = 0
       THEN [ret |-> <<Text(IndexFirstAdvice)>>, search_calls |-> 0,
             provider_calls |-> 0]
       ELSE IF sample_docs = <<>>
       THEN [ret |-> <<Text(NoContentAdvice)>>, search_calls |-> 1,
             provider_calls |-> 0]
       ELSE IF ~outcome.ok
       THEN [ret |-> <<Text(SuggestionsError)>>, search_calls |-> 1,
             provider_calls |-> 1]
       ELSE [ret |-> Suggestions(outcome.text, n_suggestions),
             search_calls |-> 1, provider_calls |-> 1]

\* a call of clear_history
ClearHistory ==
    /\ conversation_history' = clear_history(conversation_history)
    /\ answered' = <<>>
    /\ last' = [op |-> "clear"]
    /\ UNCHANGED <<store, collection_alive, system_prompt>>

\* a call of get_conversation_summary
GetConversationSummary ==
    \E ret \in get_conversation_summary(conversation_history) :
       /\ last' = [op |-> "summary", ret |-> ret]
       /\ UNCHANGED <<store, collection_alive, conversation_history, system_prompt,
                      answered>>

\* a call of get_conversation_history
GetConversationHistory(limit) ==
    \E r \in {get_conversation_history(conversation_history, limit)} :
       /\ conversation_history' = r.history
       /\ last' = [op |-> "history", limit |-> limit, ret |-> r.ret]
       /\ UNCHANGED <<store, collection_alive, system_prompt, answered>>

\* a call of export_conversation
ExportConversation ==
    /\ last' = [op |-> "export", ret |-> export_conversation(conversation_history)]
    /\ UNCHANGED <<store, collection_alive, conversation_history, system_prompt,
                   answered>>

\* a call of suggest_questions with the outcomes of its remote calls
SuggestQuestions(n_suggestions, store_ok, retrieval, outcome) ==
    \E r \in {suggest_questions(store, n_suggestions, store_ok /\ collection_alive,
                                 retrieval, outcome)} :
       /\ last' = [op |-> "suggest", n_suggestions |-> n_suggestions,
                   store_ok |-> store_ok /\ collection_alive,
                   records |-> Cardinality(store),
                   retrieval |-> retrieval.error,
                   provider_ok |-> outcome.ok, outcome |-> outcome.text,
                   search_calls |-> r.search_calls,
                   provider_calls |-> r.provider_calls, ret |-> r.ret]
       /\ UNCHANGED <<store, collection_alive, conversation_history, system_prompt,
                      answered>>

\* a call of set_system_prompt
SetSystemPrompt(new_prompt) ==
    /\ system_prompt' = new_prompt
    /\ last' = [op |-> "set_system_prompt", new_prompt |-> new_prompt]
    /\ UNCHANGED <<store, collection_alive, conversation_history, answered>>

(***************************************************************************)
(* Inputs of the conversation manager.                                     *)
(***************************************************************************)
MaxTurns == 2           \* turns the conversation history may hold

Queries == {"q1", "q2"}

\* what the generative provider does: it answers, or it raises with a reason
Outcomes ==
    {[ok |-> TRUE, text |-> "answer"],
     [ok |-> FALSE, text |-> "rate limit"],
     [ok |-> FALSE, text |-> "timeout"]}

\* the document indexed next to the conversation: two chunks of one file
ChatDocuments == {[content |-> LongDoc(2), filename |-> "a.txt"]}

ChatInit ==
    /\ InitSystem
    /\ last = [op |-> "init"]

ChatGenerate ==
    \E query \in Queries, max_history \in (0..MaxTurns) \cup {DefaultMaxHistory},
       n_results \in {DefaultNResults}, outcome \in Outcomes :
       \E retrieval \in Retrievals(store, collection_alive, n_results) :
          /\ Len(conversation_history) < MaxTurns \/ ~outcome.ok
          /\ GenerateResponse(query, max_history, n_results, retrieval, outcome)

ChatIndex ==
    \E d \in ChatDocuments :
        IndexDocument(d.content, d.filename, CallerMetadata(d.filename), {}, TRUE)

ChatNext == ChatGenerate \/ ChatIndex

SpecChat == ChatInit /\ [][ChatNext]_vars

(***************************************************************************)
(* Inputs of retrieval and of the informational operations.                *)
(***************************************************************************)
MaxResults == 2         \* largest n_results given to search_documents

\* the documents indexed before the searches: one of several chunks and one
\* of a single chunk
StoreDocuments ==
    {[content |-> LongDoc(MaxDocWords), filename |-> "a.txt"],
     [content |-> LongDoc(1), filename |-> "b.txt"]}

StoreIndex ==
    \E d \in StoreDocuments, store_ok \in BOOLEAN :
        IndexDocument(d.content, d.filename, CallerMetadata(d.filename), {}, store_ok)

StoreSearch ==
    \E query \in Queries, n_results \in 1..MaxResults :
       \E retrieval \in Retrievals(store, collection_alive, n_results) :
          SearchDocuments(query, n_results, retrieval)

StoreInfo == \E store_ok \in BOOLEAN : GetCollectionInfo(store_ok)

StoreList == \E store_ok \in BOOLEAN : ListDocuments(store_ok)

StoreDelete == \E store_ok \in BOOLEAN : DeleteCollection(store_ok)

StoreNext == StoreIndex \/ StoreSearch \/ StoreInfo \/ StoreList \/ StoreDelete

SpecStore == IndexInit /\ [][StoreNext]_vars

\* the indexer operations on one instance after another over the same store
InstanceNext == StoreNext \/ NewIndexer

SpecInstance == IndexInit /\ [][InstanceNext]_vars

(***************************************************************************)
(* A session of the chatbot: every operation of the conversation manager   *)
(* and of the indexer behind it.                                           *)
(***************************************************************************)
MaxSuggestions == 2     \* largest n_suggestions given to suggest_questions

NewLine == "\n"

\* what the generative provider does when asked for suggestions: it answers
\* with lines of text, or it raises
SuggestionOutcomes ==
    {[ok |-> TRUE, text |-> <<"q", NewLine, "r", NewLine, "s">>],
     [ok |-> TRUE, text |-> <<" ", "q", " ", NewLine, " ", NewLine, "r", NewLine>>],
     [ok |-> TRUE, text |-> <<" ", NewLine>>],
     [ok |-> FALSE, text |-> <<>>]}

SessionOutcomes ==
    {[ok |-> TRUE, text |-> "answer"], [ok |-> FALSE, text |-> "timeout"]}

SystemPrompts == {"p1"}

SessionGenerate ==
    \E query \in Queries, outcome \in SessionOutcomes :
       \E retrieval \in Retrievals(store, collection_alive, DefaultNResults) :
          /\ Len(conversation_history) < MaxTurns \/ ~outcome.ok
          /\ GenerateResponse(query, DefaultMaxHistory, DefaultNResults,
                              retrieval, outcome)

SessionClear == ClearHistory

SessionSummary == GetConversationSummary

SessionHistory ==
    \E limit \in {<<>>} \cup {<<n>> : n \in 0..MaxTurns} :
        GetConversationHistory(limit)

SessionExport == ExportConversation

SessionSuggest ==
    \E store_ok \in BOOLEAN, outcome \in SuggestionOutcomes :
       \E retrieval \in Retrievals(store, collection_alive, SampleResults) :
          SuggestQuestions(DefaultSuggestions, store_ok, retrieval, outcome)

SessionSetPrompt == \E new_prompt \in SystemPrompts : SetSystemPrompt(new_prompt)

SessionIndex == ChatIndex

SessionSearch ==
    \E query \in Queries :
       \E retrieval \in Retrievals(store, collection_alive, DefaultNResults) :
          SearchDocuments(query, DefaultNResults, retrieval)

SessionInfo == \E store_ok \in BOOLEAN : GetCollectionInfo(store_ok)

SessionList == \E store_ok \in BOOLEAN : ListDocuments(store_ok)

SessionDelete == \E store_ok \in BOOLEAN : DeleteCollection(store_ok)

SessionNext ==
    \/ SessionGenerate
    \/ SessionClear
    \/ SessionSummary
    \/ SessionHistory
    \/ SessionExport
    \/ SessionSuggest
    \/ SessionSetPrompt
    \/ SessionIndex
    \/ SessionSearch
    \/ SessionInfo
    \/ SessionList
    \/ SessionDelete

SpecSession == ChatInit /\ [][SessionNext]_vars

(***************************************************************************)
(* generate_response step by step: the call is in flight while it waits    *)
(* for its blocking remote calls, first the search (embedding and store),  *)
(* then the generative provider.  While a call is in flight `last` holds   *)
(* its position and what it has computed so far.                           *)
(***************************************************************************)
\* the state of the conversation manager
ManagerState == IF last.op = "generating" THEN "AwaitingGeneration" ELSE "Idle"

Idle == ManagerState = "Idle"

\* generate_response is called (line 46) and reaches the search of line 63
CallGenerate(query, max_history, n_results) ==
    /\ Idle
    /\ last' = [op |-> "generating", at |-> "search", query |-> query,
                max_history |-> max_history, n_results |-> n_results]
    /\ UNCHANGED <<store, collection_alive, conversation_history, system_prompt,
                   answered>>

\* the search returns, its results or the empty list (line 63); the prompt is
\* built (lines 66-104) and the call reaches the provider call of line 107
SearchReturns(retrieval) ==
    /\ last.op = "generating"
    /\ last.at = "search"
    /\ last' = [op |-> "generating", at |-> "provider", query |-> last.query,
                max_history |-> last.max_history, n_results |-> last.n_results,
                retrieval |-> retrieval,
                messages |-> Messages(conversation_history, last.query,
                                      last.max_history, search_documents(retrieval))]
    /\ UNCHANGED <<store, collection_alive, conversation_history, system_prompt,
                   answered>>

\* the provider call returns or raises, and generate_response returns (lines
\* 107-128): the effect of the whole call, with the retrieval it made
ProviderReturns(outcome) ==
    /\ last.op = "generating"
    /\ last.at = "provider"
    /\ GenerateResponse(last.query, last.max_history, last.n_results,
                        last.retrieval, outcome)

ManagerCall ==
    \E query \in Queries, max_history \in {1, DefaultMaxHistory} :
       /\ Len(conversation_history) < MaxTurns
       /\ CallGenerate(query, max_history, DefaultNResults)

ManagerSearchReturns ==
    \E retrieval \in Retrievals(store, collection_alive, DefaultNResults) :
        SearchReturns(retrieval)

ManagerProviderReturns == \E outcome \in Outcomes : ProviderReturns(outcome)

ManagerIndex == Idle /\ ChatIndex

ManagerClear == Idle /\ ClearHistory

ManagerNext ==
    \/ ManagerCall
    \/ ManagerSearchReturns
    \/ ManagerProviderReturns
    \/ ManagerIndex
    \/ ManagerClear

\* the remote calls are blocking calls that return or raise: a call in
\* flight goes on
SpecManager ==
    /\ ChatInit
    /\ [][ManagerNext]_vars
    /\ WF_vars(ManagerSearchReturns)
    /\ WF_vars(ManagerProviderReturns)

(***************************************************************************)
(* The suggestions next to the collection they are drawn from.             *)
(***************************************************************************)
SuggestSuggest ==
    \E n_suggestions \in 0..MaxSuggestions, store_ok \in BOOLEAN,
       outcome \in SuggestionOutcomes :
       \E retrieval \in Retrievals(store, collection_alive, SampleResults) :
          SuggestQuestions(n_suggestions, store_ok, retrieval, outcome)

SuggestIndex ==
    \E d \in StoreDocuments :
        IndexDocument(d.content, d.filename, CallerMetadata(d.filename), {}, TRUE)

SuggestDelete == DeleteCollection(TRUE)

SuggestNext == SuggestSuggest \/ SuggestIndex \/ SuggestDelete

SpecSuggest == ChatInit /\ [][SuggestNext]_vars

(***************************************************************************)
(* Claims about the conversation manager.                                  *)
(***************************************************************************)
\* the last turn of the conversation history
LastTurn == conversation_history[Len(conversation_history)]

\* the filename of a search result, None when its metadata has none
FilenameOf(doc) ==
    IF "filename" \in DOMAIN doc.metadata THEN doc.metadata["filename"] ELSE None

\* C1: history integrity.  A generate_response call whose provider raises
\* leaves the number of turns unchanged; a call that succeeds adds exactly one
\* turn, and the query of the new last turn is the query of the call.
C1_HistoryIntegrity ==
    [][last'.op = "generate"
       => IF last'.provider_ok
          THEN /\ Len(conversation_history') = Len(conversation_history) + 1
               /\ conversation_history'[Len(conversation_history')].query = last'.query
          ELSE Len(conversation_history') = Len(conversation_history)]_vars

\* C1 witness: a second turn with another query was recorded
C1_Witness ==
    /\ last.op = "generate"
    /\ last.provider_ok
    /\ Len(conversation_history) = 2
    /\ LastTurn.query = last.query
    /\ conversation_history[1].query # last.query

\* C2: history window.  The prompt holds the system message, then the
\* min(max_history, prior turns) most recent prior turns as user/assistant
\* pairs, oldest first, then the final user message, for every max_history >= 0.
C2_HistoryWindow ==
    [][last'.op = "generate"
       => LET prior == conversation_history
              w == Min(last'.max_history, Len(prior))
              msgs == last'.messages
          IN /\ Len(msgs) = 2 * w + 2
             /\ msgs[1].role = "system"
             /\ msgs[Len(msgs)].role = "user"
             /\ \A j \in 1..w :
                  /\ 2 * j + 1 < Len(msgs)
                  /\ msgs[2 * j] = [role |-> "user",
                                    content |-> prior[Len(prior) - w + j].query]
                  /\ msgs[2 * j + 1] = [role |-> "assistant",
                                        content |-> prior[Len(prior) - w + j].response]]_vars

\* C3: a generation failure is contained.  When the provider raises, the call
\* returns the error string, which holds the reason of the failure, and the
\* conversation history is exactly what it was.
C3_FailureContained ==
    [][(last'.op = "generate" /\ ~last'.provider_ok)
       => /\ conversation_history' = conversation_history
          /\ last'.ret[1] = "Lo siento, hubo un error al generar la respuesta: "
          /\ \E i \in 1..Len(last'.ret) : last'.ret[i] = last'.outcome]_vars

\* C3 witness: the provider timed out in a conversation of one turn
C3_Witness ==
    /\ last.op = "generate"
    /\ ~last.provider_ok
    /\ last.outcome = "timeout"
    /\ last.ret = <<ErrorPrefix, "timeout">>
    /\ Len(conversation_history) = 1

\* C4 as stated: the filename list of the new turn holds the deduplicated
\* non-null filenames of the retrieved results: no filename twice, no None.
C4_TurnDocsDeduplicated ==
    (last.op = "generate" /\ last.provider_ok)
    => LET docs == LastTurn.relevant_docs IN
       /\ \A i, j \in 1..Len(docs) : i # j => docs[i] # docs[j]
       /\ \A i \in 1..Len(docs) : docs[i] # None
       /\ Range(docs) = {FilenameOf(d) : d \in Range(last.relevant_docs)} \ {None}

\* C4 amended: the filename list of the new turn holds one entry per retrieved
\* result, in retrieval order: the filename of the result's metadata, or the
\* absent value when the metadata has none; repeated filenames are kept.
C4_TurnDocsPerResult ==
    (last.op = "generate" /\ last.provider_ok)
    => LET docs == LastTurn.relevant_docs IN
       /\ Len(docs) = Len(last.relevant_docs)
       /\ \A i \in 1..Len(docs) : docs[i] = FilenameOf(last.relevant_docs[i])

\* C4 witness: two chunks of one file were retrieved for the recorded turn
C4_Witness ==
    /\ last.op = "generate"
    /\ last.provider_ok
    /\ Len(last.relevant_docs) = 2
    /\ LastTurn.relevant_docs = <<"a.txt", "a.txt">>

\* C12: a retrieval failure does not fail the query.  When the search of a
\* generate_response call yields nothing (empty collection, embedding failure
\* or store failure), the generative provider is called exactly once, with the
\* fixed marker as the context block; and when the provider answers, one turn
\* with an empty filename list is appended and the answer is returned.
C12_RetrievalFailureAnswered ==
    [][(/\ last'.op = "generate"
        /\ (last'.retrieval \in {"embedding", "store"} \/ store = {}))
       => /\ last'.relevant_docs = <<>>
          /\ Len(last'.provider_calls) = 1
          /\ LET prompt == last'.provider_calls[1] IN
                /\ prompt[Len(prompt)].role = "user"
                /\ prompt[Len(prompt)].content =
                      <<"Contexto de documentos:",
                        "No se encontraron documentos relevantes.",
                        "Pregunta: ", last'.query>>
          /\ (last'.provider_ok
                => /\ Len(conversation_history') = Len(conversation_history) + 1
                   /\ SubSeq(conversation_history', 1, Len(conversation_history))
                        = conversation_history
                   /\ conversation_history'[Len(conversation_history')].query
                        = last'.query
                   /\ conversation_history'[Len(conversation_history')].relevant_docs
                        = <<>>
                   /\ last'.ret = last'.outcome)]_vars

\* C12 witness: the store lookup failed on an indexed collection, the
\* provider answered and the turn was recorded without filenames
C12_Witness ==
    /\ last.op = "generate"
    /\ last.retrieval = "store"
    /\ store # {}
    /\ last.provider_ok
    /\ last.ret = "answer"
    /\ LastTurn.query = last.query
    /\ LastTurn.relevant_docs = <<>>

\* C13: the conversation log is append-only.  Every operation leaves the
\* history unchanged, or (successful generate_response only) appends one turn
\* at the end while the earlier turns keep their content and order, or
\* (clear_history only) resets it to empty; the summary, the export,
\* get_conversation_history, suggest_questions, set_system_prompt, a failed
\* generate_response and every operation of the indexer leave it unchanged.
C13_AppendOnly ==
    [][/\ \/ conversation_history' = conversation_history
          \/ /\ last'.op = "generate"
             /\ last'.provider_ok
             /\ Len(conversation_history') = Len(conversation_history) + 1
             /\ SubSeq(conversation_history', 1, Len(conversation_history))
                  = conversation_history
          \/ /\ last'.op = "clear"
             /\ conversation_history' = <<>>
       /\ (\/ last'.op \in {"summary", "export", "history", "suggest",
                             "set_system_prompt", "index", "search", "info",
                             "list", "delete"}
           \/ (last'.op = "generate" /\ ~last'.provider_ok))
          => conversation_history' = conversation_history]_vars

\* C13 witness: get_conversation_history returned the last of two turns and
\* both turns are still in the history
C13_Witness ==
    /\ last.op = "history"
    /\ last.limit = <<1>>
    /\ Len(conversation_history) = 2
    /\ last.ret = <<conversation_history[2]>>

\* the filenames other than None recorded in the turns of the history
RecordedFilenames ==
    UNION {Range(conversation_history[i].relevant_docs) :
             i \in 1..Len(conversation_history)} \ {None}

\* C14: the summary reflects the log.  Its turn count is the number of
\* successful generate_response calls since the last clear_history, its last
\* query is the query of the most recent of them (None when there is none),
\* and its referenced documents hold every filename other than None recorded
\* in a current turn exactly once, and nothing else.
C14_SummaryReflectsLog ==
    last.op = "summary"
    => LET docs == last.ret.documents_referenced IN
       /\ last.ret.total_exchanges = Len(answered)
       /\ last.ret.last_query =
            (IF answered = <<>> THEN None ELSE answered[Len(answered)])
       /\ \A i, j \in 1..Len(docs) : i # j => docs[i] # docs[j]
       /\ Range(docs) = RecordedFilenames

\* C14 witness: the summary of two turns with different queries, of which one
\* recorded the same file twice
C14_Witness ==
    /\ last.op = "summary"
    /\ last.ret.total_exchanges = 2
    /\ conversation_history[1].query # last.ret.last_query
    /\ \E i \in 1..2 : conversation_history[i].relevant_docs = <<"a.txt", "a.txt">>
    /\ last.ret.documents_referenced = <<"a.txt">>

\* the entry is blank: empty or whitespace only
Blank(q) == \A i \in 1..Len(q) : q[i] \in {" ", "\n"}

\* the collection reported zero records to the suggest_questions call
ReportedEmpty == ~last.store_ok \/ last.records = 0

\* C15 as stated: suggest_questions returns a fixed advisory without calling
\* the provider when the collection reports zero records, a fixed advisory
\* when the provider fails, and otherwise at most n entries, none blank.
C15_SuggestAtMostN ==
    last.op = "suggest"
    => /\ (ReportedEmpty
             => /\ last.ret = <<<<"Primero necesitas indexar algunos documentos.">>>>
                /\ last.provider_calls = 0)
       /\ (last.provider_calls > 0 /\ ~last.provider_ok
             => last.ret = <<<<"Error generando sugerencias de preguntas.">>>>)
       /\ (~ReportedEmpty /\ ~(last.provider_calls > 0 /\ ~last.provider_ok)
             => /\ Len(last.ret) <= last.n_suggestions
                /\ \A i \in 1..Len(last.ret) : ~Blank(last.ret[i]))

\* C15 amended: suggest_questions returns a list of one fixed advisory,
\* without calling the provider, when the collection reports zero records and
\* when the sample search returns nothing; a list of one fixed advisory when
\* the provider fails; and otherwise at most n entries (n >= 0), none blank.
C15_SuggestDegrades ==
    last.op = "suggest"
    => /\ (ReportedEmpty
             => /\ last.ret = <<<<"Primero necesitas indexar algunos documentos.">>>>
                /\ last.provider_calls = 0)
       /\ (~ReportedEmpty /\ last.retrieval \in {"embedding", "store"}
             => /\ last.ret =
                     <<<<"No hay suficiente contenido para generar sugerencias.">>>>
                /\ last.provider_calls = 0)
       /\ (~ReportedEmpty /\ last.retrieval = None /\ ~last.provider_ok
             => /\ last.ret = <<<<"Error generando sugerencias de preguntas.">>>>
                /\ last.provider_calls = 1)
       /\ (~ReportedEmpty /\ last.retrieval = None /\ last.provider_ok
             => /\ last.provider_calls = 1
                /\ Len(last.ret) <= last.n_suggestions
                /\ \A i \in 1..Len(last.ret) : ~Blank(last.ret[i]))

\* C15 witness: two of the three suggestions of the provider were returned
C15_Witness ==
    /\ last.op = "suggest"
    /\ ~ReportedEmpty
    /\ last.provider_ok
    /\ last.n_suggestions = 2
    /\ last.ret = <<<<"q">>, <<"r">>>>
    /\ Len(SplitLines(last.outcome)) = 3

\* C23: the state machine of the conversation manager.  A generate_response
\* call moves Idle to AwaitingGeneration; the history does not change while
\* the call is in flight; the call goes back to Idle with exactly one of two
\* outcomes, a turn appended and the provider's answer returned, or no turn
\* appended and an error string returned; and as the remote calls return or
\* fail, a call in flight always goes back to Idle.
C23_ManagerStateMachine ==
    /\ [][/\ (Idle /\ last'.op = "generating")
              => /\ last'.at = "search"
                 /\ conversation_history' = conversation_history
          /\ (~Idle /\ last'.op = "generating")
              => /\ last.at = "search" /\ last'.at = "provider"
                 /\ conversation_history' = conversation_history
          /\ (~Idle /\ last'.op # "generating")
              => /\ last'.op = "generate"
                 /\ last'.query = last.query
                 /\ \/ /\ last'.provider_ok
                       /\ last'.ret = last'.outcome
                       /\ Len(conversation_history') = Len(conversation_history) + 1
                       /\ SubSeq(conversation_history', 1, Len(conversation_history))
                            = conversation_history
                       /\ conversation_history'[Len(conversation_history')].query
                            = last.query
                       /\ conversation_history'[Len(conversation_history')].response
                            = last'.outcome
                    \/ /\ ~last'.provider_ok
                       /\ last'.ret[1]
                            = "Lo siento, hubo un error al generar la respuesta: "
                       /\ conversation_history' = conversation_history]_vars
    /\ (ManagerState = "AwaitingGeneration") ~> (ManagerState = "Idle")

\* C23 witness: a call made after one recorded turn went through the search
\* and the provider, failed there, and is back in Idle with the one turn
C23_Witness ==
    /\ Idle
    /\ last.op = "generate"
    /\ ~last.provider_ok
    /\ last.ret = <<ErrorPrefix, "timeout">>
    /\ Len(last.messages) = 4
    /\ Len(conversation_history) = 1

\* the prompt generate_response would send from the current state, for each
\* query and each retrieval
PromptsNow ==
    [query \in Queries,
     retrieval \in Retrievals(store, collection_alive, DefaultNResults) |->
       Messages(conversation_history, query, DefaultMaxHistory,
                search_documents(retrieval))]

HasOversizedUnit(chunk, max_tokens) ==
    \E u \in Range(PySplit(chunk)) : count_tokens(u) > max_tokens

\* C5: chunk budget.  Every chunk produced by split that holds no unit whose
\* own token count exceeds max_tokens has at most max_tokens tokens, the
\* chunks that start with carried-over overlap units included.
C5_ChunkBudget ==
    last.op = "split" =>
        \A i \in 1..Len(last.chunks) :
            ~HasOversizedUnit(last.chunks[i], last.max_tokens)
                => count_tokens(last.chunks[i]) <= last.max_tokens

\* C19: an empty or whitespace-only text yields zero chunks; every other
\* text yields at least one chunk, and every chunk is non-empty.
C19_ChunksNonEmpty ==
    last.op = "split"
    => IF \A i \in 1..Len(last.text) : last.text[i] = " "
       THEN last.chunks = <<>>
       ELSE /\ Len(last.chunks) >= 1
            /\ \A i \in 1..Len(last.chunks) :
                  /\ last.chunks[i] # <<>>
                  /\ \E j \in 1..Len(last.chunks[i]) : last.chunks[i][j] # " "

\* C19 witness: a text of one word between spaces gave one chunk, the word
C19_Witness ==
    /\ last.op = "split"
    /\ last.text = <<" ", "a", " ">>
    /\ last.chunks = <<<<"a">>>>

\* the state of the loop of the last split after its first k words
LoopState(k) ==
    SplitLoop(PySplit(last.text), k, last.max_tokens, last.overlap)

\* C20: overlap seeding.  For every overlap >= 0, 0 included, whenever split
\* closes a chunk because the next unit would exceed max_tokens, the new
\* running chunk is the last min(overlap, units of the closed chunk) units of
\* the closed chunk, in order, followed by the unit that overflowed.
C20_OverlapSeeding ==
    last.op = "split"
    => \A k \in 1..Len(PySplit(last.text)) :
          LET closed == LoopState(k - 1).current_chunk
              m == Min(last.overlap, Len(closed))
          IN Len(LoopState(k).chunks) = Len(LoopState(k - 1).chunks) + 1
             => LoopState(k).current_chunk
                  = SubSeq(closed, Len(closed) - m + 1, Len(closed))
                      \o <<PySplit(last.text)[k]>>

\* the iteration of the loop of the last split that closed chunk j
ClosingStep(j) ==
    CHOOSE k \in 1..Len(PySplit(last.text)) :
        Len(LoopState(k).chunks) = j /\ Len(LoopState(k - 1).chunks) = j - 1

\* the units chunk j starts with that were carried over from chunk j - 1:
\* all the units of the running chunk after the closing step but the last
CarriedOver(j) ==
    IF j = 1 THEN 0 ELSE Len(LoopState(ClosingStep(j - 1)).current_chunk) - 1

\* the units of chunk j after its carried-over units
FreshUnits(j) ==
    LET units == PySplit(last.chunks[j])
    IN SubSeq(units, CarriedOver(j) + 1, Len(units))

\* the units of the first n chunks without the carried-over ones, in order
RECURSIVE FreshUnitsUpTo(_)
FreshUnitsUpTo(n) ==
    IF n = 0 THEN <<>> ELSE FreshUnitsUpTo(n - 1) \o FreshUnits(n)

\* C21: split never drops or reorders content.  Removing from each chunk
\* after the first its leading carried-over units and concatenating what is
\* left of all chunks in order gives exactly the whitespace-delimited units of
\* the input; a unit whose own token count exceeds max_tokens is in a chunk.
C21_ContentPreserved ==
    last.op = "split"
    => /\ FreshUnitsUpTo(Len(last.chunks)) = PySplit(last.text)
       /\ \A u \in Range(PySplit(last.text)) :
             count_tokens(u) > last.max_tokens
                => \E j \in 1..Len(last.chunks) : u \in Range(PySplit(last.chunks[j]))

\* C21 witness: three chunks with carried-over units, one of them holding a
\* unit of more tokens than the budget
C21_Witness ==
    /\ last.op = "split"
    /\ last.overlap = 1
    /\ Len(last.chunks) = 3
    /\ CarriedOver(3) = 1
    /\ \E u \in Range(PySplit(last.text)) : count_tokens(u) > last.max_tokens
    /\ FreshUnitsUpTo(3) = PySplit(last.text)

(***************************************************************************)
(* Claims about the indexer.                                               *)
(***************************************************************************)
\* the indexes of the chunks of the last index_document call
ChunkIndexes == 0..(Len(last.chunks) - 1)

\* the positions of a list
Positions(list) == 1..Len(list)

\* C6: partial failure isolation.  When a document splits into N chunks, the
\* embedding of exactly one fails, the store is working and held no record of
\* the file, index_document returns N-1, the store holds exactly N-1 records of
\* the file, one per embedded chunk, and every chunk was sent to the provider.
C6_PartialFailureIsolation ==
    (/\ last.op = "index"
     /\ last.chunks # <<>>
     /\ Cardinality(last.embed_fail) = 1
     /\ last.store_ok
     /\ ~last.had_records)
    => LET N == Len(last.chunks)
           recs == RecordsOf(store, last.filename)
       IN /\ last.ret = N - 1
          /\ Cardinality(recs) = N - 1
          /\ \A i \in ChunkIndexes \ last.embed_fail :
                \E r \in recs :
                    /\ r.id = last.filename \o "_" \o ToString(i)
                    /\ r.document = last.chunks[i + 1]
                    /\ r.embedding = <<"embedding", last.chunks[i + 1]>>
          /\ last.embed_calls = last.chunks

\* C6 witness: the first of two chunks failed and the second one was stored
C6_Witness ==
    /\ last.op = "index"
    /\ Len(last.chunks) = 2
    /\ last.embed_fail = {0}
    /\ ~last.had_records
    /\ last.ret = 1
    /\ Cardinality(RecordsOf(store, last.filename)) = 1

\* C7 as stated: the ids of a write of k chunks are filename_0 .. filename_{k-1}
\* and every written record has the index of its id as chunk_index and k,
\* the number of records written, as total_chunks.
C7_IdsAreZeroToK ==
    (last.op = "index" /\ last.add_ok)
    => LET k == Len(last.ids) IN
       /\ Range(last.ids) = {last.filename \o "_" \o ToString(j) : j \in 0..(k - 1)}
       /\ \A p \in Positions(last.ids) :
            /\ last.ids[p] = last.filename \o "_"
                                \o ToString(last.metadatas[p].chunk_index)
            /\ last.metadatas[p].total_chunks = k

\* C7 amended: a write of k embedded chunks has k ids, the id of a chunk is
\* filename_i for the chunk's index i in the split (so filename_0 ..
\* filename_{k-1} when no embedding failed), chunk_index is that i and
\* total_chunks is the number of chunks of the split; k is returned.
C7_IdsFollowChunkIndex ==
    (last.op = "index" /\ last.add_ok)
    => LET k == Len(last.ids)
           embedded == ChunkIndexes \ last.embed_fail
       IN /\ k = Cardinality(embedded)
          /\ last.ret = k
          /\ Len(last.metadatas) = k
          /\ Range(last.ids) = {last.filename \o "_" \o ToString(i) : i \in embedded}
          /\ \A p, q \in Positions(last.ids) :
                p < q => last.metadatas[p].chunk_index < last.metadatas[q].chunk_index
          /\ \A p \in Positions(last.ids) :
                /\ last.metadatas[p].chunk_index \in embedded
                /\ last.ids[p] = last.filename \o "_"
                                    \o ToString(last.metadatas[p].chunk_index)
                /\ last.metadatas[p].total_chunks = Len(last.chunks)
                /\ last.metadatas[p].filename = last.filename
          /\ (last.embed_fail = {} =>
                Range(last.ids) = {last.filename \o "_" \o ToString(j) : j \in 0..(k - 1)})

\* C7 witness: a write after the first of two chunks failed to embed
C7_Witness ==
    /\ last.op = "index"
    /\ last.add_ok
    /\ Len(last.chunks) = 2
    /\ last.embed_fail = {0}
    /\ last.ids = <<last.filename \o "_1">>

\* C8: blank content returns 0 with no embedding call and no store write; and
\* when every embedding call fails, index_document returns 0 and attempts no
\* store write.  The collection is left as it was.
C8_NothingWritten ==
    [][(/\ last'.op = "index"
        /\ \/ Strip(last'.content) = <<>>
           \/ last'.embed_fail = 0..(Len(last'.chunks) - 1))
       => /\ last'.ret = 0
          /\ ~last'.add_called
          /\ store' = store
          /\ (Strip(last'.content) = <<>> => last'.embed_calls = <<>>)]_vars

\* C8 witness: both embedding calls of a document failed, next to stored records
C8_Witness ==
    /\ last.op = "index"
    /\ Len(last.chunks) = 2
    /\ last.embed_fail = {0, 1}
    /\ last.embed_calls = last.chunks
    /\ last.ret = 0
    /\ store # {}

\* C9: store write errors fail soft.  When collection.add fails the call
\* returns 0 and leaves the collection as it was; a call with a working store,
\* a retry of the same document among them, returns the number of chunks it
\* embedded, and each of them is in the collection afterwards.
C9_WriteErrorsFailSoft ==
    [][last'.op = "index"
       => /\ (last'.add_called /\ ~last'.store_ok
                => last'.ret = 0 /\ store' = store)
          /\ (last'.store_ok
                => /\ last'.ret = Len(last'.documents)
                   /\ last'.ret = Cardinality((0..(Len(last'.chunks) - 1))
                                                \ last'.embed_fail)
                   /\ \A p \in Positions(last'.ids) :
                        \E r \in store' :
                            /\ r.id = last'.ids[p]
                            /\ (~HasId(store, last'.ids[p])
                                  => r.document = last'.documents[p]))]_vars

\* C9 witness: the retry of a document whose write had failed stored two chunks
C9_Witness ==
    /\ last.op = "index"
    /\ last.retry
    /\ last.store_ok
    /\ last.ret = 2
    /\ Cardinality(RecordsOf(store, last.filename)) = 2

\* the collection holds at most one record per chunk id
OneRecordPerId(st) == \A r1, r2 \in st : r1.id = r2.id => r1 = r2

\* the step is a second index_document call of the content and filename of
\* the call before it
SecondIndexing ==
    /\ last.op = "index"
    /\ last'.op = "index"
    /\ last'.content = last.content
    /\ last'.filename = last.filename

HoldsChunk(r, i) ==
    /\ r.id = last.filename \o "_" \o ToString(i)
    /\ r.document = last.chunks[i + 1]
    /\ r.embedding = <<"embedding", last.chunks[i + 1]>>
    /\ r.metadata["filename"] = last.filename
    /\ r.metadata["chunk_index"] = i

\* position p of the four lists given to collection.add, as a record
BatchRecord(p) ==
    [id |-> last.ids[p], document |-> last.documents[p],
     embedding |-> last.embeddings[p], metadata |-> last.metadatas[p]]

\* C22: id/chunk alignment.  With any pattern of embedding failures, every
\* record written under the id filename_i holds the text of chunk i of the
\* document, the embedding returned for that chunk and metadata with the
\* filename of the call and chunk_index i; every record of the collection
\* pairs its id with the chunk index, the text and the vector of one chunk.
C22_IdChunkAlignment ==
    /\ last.op = "index"
        => \A p \in Positions(last.ids) :
              \E i \in ChunkIndexes \ last.embed_fail : HoldsChunk(BatchRecord(p), i)
    /\ (last.op = "index" /\ last.add_ok)
        => \A p \in Positions(last.ids) : HasId(store, last.ids[p])
    /\ \A r \in store :
          /\ r.id = r.metadata["filename"] \o "_" \o ToString(r.metadata["chunk_index"])
          /\ r.embedding = <<"embedding", r.document>>

\* C22 witness: after the embedding of the first of two chunks failed, the
\* record written under the id of the second chunk holds the second chunk
C22_Witness ==
    /\ last.op = "index"
    /\ last.add_ok
    /\ ~last.had_records
    /\ Len(last.chunks) = 2
    /\ last.embed_fail = {0}
    /\ \E r \in store : HoldsChunk(r, 1)
    /\ last.chunks[1] # last.chunks[2]

(***************************************************************************)
(* Claims about retrieval and the informational operations.                *)
(***************************************************************************)
\* C11: search is best-effort and bounded.  search_documents returns at most
\* n_results results, in the order the store returned them; it returns the
\* empty list when the query embedding fails, when the store lookup fails and
\* when the collection is empty.
C11_SearchBestEffort ==
    last.op = "search"
    => /\ Len(last.ret) <= last.n_results
       /\ (last.error = None
             => /\ Len(last.ret) = Len(last.ranking)
                /\ \A i \in 1..Len(last.ret) :
                      /\ last.ret[i].content = last.ranking[i].document
                      /\ last.ret[i].metadata = last.ranking[i].metadata)
       /\ (last.error \in {"embedding", "store"} => last.ret = <<>>)
       /\ (last.records = 0 => last.ret = <<>>)

\* C11 witness: a search for two results in a collection of more records
\* returned two chunks of different files, in the store's order
C11_Witness ==
    /\ last.op = "search"
    /\ last.n_results = 2
    /\ last.records > 2
    /\ Len(last.ret) = 2
    /\ last.ret[1].content = last.ranking[1].document
    /\ last.ret[1].metadata["filename"] # last.ret[2].metadata["filename"]

\* C16: the informational queries fail soft.  get_collection_info returns the
\* record count and the collection name, and a zero count with the placeholder
\* name when the store fails; list_documents returns each stored filename at
\* most once, and the empty list when the store fails.
C16_InfoFailsSoft ==
    /\ last.op = "info"
        => IF last.store_ok
           THEN last.ret = [total_documents |-> Cardinality(store),
                            collection_name |-> "documents"]
           ELSE last.ret = [total_documents |-> 0, collection_name |-> "unknown"]
    /\ last.op = "list"
        => /\ \A i, j \in 1..Len(last.ret) : i # j => last.ret[i] # last.ret[j]
           /\ IF last.store_ok
              THEN Range(last.ret) = {r.metadata["filename"] : r \in store}
              ELSE last.ret = <<>>

\* C16 witness: the two filenames of a collection of three records were listed
C16_Witness ==
    /\ last.op = "list"
    /\ last.store_ok
    /\ Cardinality(store) = MaxDocWords + 1
    /\ Len(last.ret) = 2
    /\ Range(last.ret) = {"a.txt", "b.txt"}

\* C17: delete_collection returns True exactly when the store deleted the
\* collection, and then no record of the collection remains; when the store
\* fails it returns False and the records are unchanged.
C17_DeleteReportsOutcome ==
    [][last'.op = "delete"
       => /\ last'.ret = (collection_alive /\ ~collection_alive')
          /\ last'.ret = (collection_alive /\ last'.store_ok)
          /\ (last'.ret => store' = {})
          /\ (~last'.ret => store' = store /\ collection_alive' = collection_alive)]_vars

\* C17 witness: a collection that held records was deleted
C17_Witness ==
    /\ last.op = "delete"
    /\ last.ret = TRUE
    /\ last.records > 0
    /\ store = {}
    /\ ~collection_alive

\* C25: the collection handle is bound at construction and not again.  A
\* delete_collection that returns True leaves the instance on the deleted
\* collection, and from then on, until a new indexer is constructed, every
\* index_document returns 0 and stores nothing, every search returns the
\* empty list and get_collection_info reports zero records; only a
\* construction binds the handle to a live collection again.
C25_HandleBoundOnce ==
    [][/\ (last'.op = "delete" /\ last'.ret) => (~collection_alive' /\ store' = {})
       /\ (~collection_alive /\ last'.op # "construct")
          => /\ ~collection_alive'
             /\ store' = {}
             /\ last'.op = "index" => last'.ret = 0
             /\ last'.op = "search" => last'.ret = <<>>
             /\ last'.op = "info" => last'.ret.total_documents = 0
             /\ last'.op = "delete" => ~last'.ret
       /\ (~collection_alive /\ collection_alive') => last'.op = "construct"
       /\ last'.op = "construct" => collection_alive']_vars

\* C25 witness: after the deletion a document with text was embedded and
\* handed to the store, and the call returned 0 with nothing stored
C25_Witness ==
    /\ ~collection_alive
    /\ last.op = "index"
    /\ Len(last.documents) = 2
    /\ last.add_called
    /\ last.ret = 0
    /\ store = {}

(***************************************************************************)
(* Claims about the folder ingestion.                                      *)
(***************************************************************************)
\* C18: batch ingestion isolates bad documents.  In a folder ingestion a
\* loader error or an index_document result of 0 for one file does not stop
\* the loop: every file is loaded, every file that loads is indexed, and the
\* success count plus the failure count is the number of files found.
C18_BatchIsolation ==
    (last.op = "carpeta" /\ last.ran)
    => LET n == Len(last.files)
           loadable == {i \in 1..n : last.files[i].load_ok}
       IN /\ last.load_calls = [i \in 1..n |-> last.files[i].name]
          /\ Len(last.index_calls) = Cardinality(loadable)
          /\ Range(last.index_calls) = {last.files[i].name : i \in loadable}
          /\ last.exitosos + last.fallidos = n
          /\ last.exitosos = Cardinality({i \in 1..n : /\ last.results[i] # <<>>
                                                        /\ last.results[i][1] > 0})

\* C18 witness: the first file failed to load and the second was indexed
C18_Witness ==
    /\ last.op = "carpeta"
    /\ last.ran
    /\ Len(last.files) = 2
    /\ ~last.files[1].load_ok
    /\ last.load_calls = <<"f1.txt", "f2.txt">>
    /\ last.index_calls = <<"f2.txt">>
    /\ last.exitosos = 1
    /\ last.fallidos = 1
    /\ store # {}

====
